---- MODULE Spec2Model ----
(***************************************************************************)
(* Model of the chismelabs scripts:                                        *)
(*   - src/src/cmd/transcribe.py : the resumable transcription driver      *)
(*   - src/src/cmd/uploader.py   : the Drive uploader and its ID mapping    *)
(* Two specifications share the module: Spec (the transcription driver)    *)
(* and UpSpec (the uploader).                                              *)
(***************************************************************************)
EXTENDS Integers, Sequences, FiniteSets, TLC

(* ---------------- bounds ---------------- *)
\* number of images discovered in the work directory
NumWork == 5
\* number of images discovered in the reference directory
NumRef == 2
\* number of distinct texts the completion API can answer with
NumTexts == 2

(* ---------------- program constants ---------------- *)
MAX_PHOTOS_PER_CONVERSATION == 4

WorkImages == 1..NumWork
RefImages == 1..NumRef

\* content of a companion .txt file: NoFile = os.path.exists is false,
\* 0 = the file exists and is empty, n > 0 = the file holds text n
NoFile == -1
EmptyText == 0
Texts == 1..NumTexts

VARIABLES
    refAnn,      \* reference image -> content of its _annotation.txt
    workAnn,     \* set of work images that have an _annotation.txt
    disk,        \* work image -> content of its transcription .txt
    disk0,       \* the transcription files before the first run
    diskAtStart, \* the transcription files when the current process started
    pc,          \* position of the driver process
    target,      \* last_image of the current iteration (0: none)
    request,     \* messages of the request in flight / last sent
    response,    \* transcription_text of the last response
    received,    \* work image -> last text fully received for it (NoFile: none)
    apiCalls,    \* _request calls made by the current process
    writes,      \* transcription files opened for writing by the current process
    selections,  \* _transcribe_images calls made by the current process
    requested,   \* targets of the requests of the current process, in order
    upDir,           \* the files under LOCAL_REPO_PATH, as relative paths
    upPc,            \* position of the uploader process
    upDisk,          \* drive_map.json
    upMap,           \* the mapping dict of the current process
    upStart,         \* the mapping the current process loaded
    upQueue,         \* the files os.walk has still to yield, in walk order
    upNextId,        \* the next ID the remote store hands out
    upFolderCreates, \* remote folders created by the current process
    upDocCreates,    \* remote documents created by the current process
    upPrevComplete,  \* the previous process ran to its end
    pDir,        \* the entries of an images directory (file names)
    pFs,         \* companion .txt path -> content of the file
    pImages,     \* the records _load_images returned
    pPc,         \* position of the process that loads and saves
    pPrev,       \* the companion files before the last save_transcription
    pSaved       \* index in pImages of the record last saved (0: none)

tvars == <<refAnn, workAnn, disk, disk0, diskAtStart, pc, target, request,
           response, received, apiCalls, writes, selections, requested>>
uvars == <<upDir, upPc, upDisk, upMap, upStart, upQueue, upNextId, upFolderCreates,
           upDocCreates, upPrevComplete>>
pvars == <<pDir, pFs, pImages, pPc, pPrev, pSaved>>
vars == <<tvars, uvars, pvars>>

Max(a, b) == IF a > b THEN a ELSE b
Min(a, b) == IF a < b THEN a ELSE b

(* ---------------- transcribe.py: PhotoTranscription ---------------- *)

\* a message of the chat request. src/idx name the image record the message
\* was built from; hasImage says whether the content carries the image.
Msg(role, src, idx, hasImage, tag, val) ==
    [role |-> role, src |-> src, idx |-> idx, hasImage |-> hasImage,
     tag |-> tag, val |-> val]

has_transcription(d, k) == d[k] # NoFile

has_annotation(k) == k \in workAnn

\* the transcription property: None (NoFile) when there is no file
transcription(d, k) == IF has_transcription(d, k) THEN d[k] ELSE NoFile

assistant_message(d, k) ==
    Msg("assistant", "work", k, FALSE, "transcription", transcription(d, k))

user_message(k) ==
    Msg("user", "work", k, TRUE,
        IF has_annotation(k) THEN "transcribe_with_base" ELSE "transcribe", 0)

\* variant: only an empty annotation is rejected
system_message_raises_OnlyEmpty(r) == refAnn[r] = EmptyText

\* `if not annotation: raise ValueError`: a missing file (None) and an empty
\* file ("") both fail
system_message_raises(r) == refAnn[r] = NoFile \/ refAnn[r] = EmptyText

system_message(r) == Msg("user", "ref", r, TRUE, "example", refAnn[r])

(* ---------------- transcribe.py: module functions ---------------- *)

RECURSIVE RefMessages(_)
RefMessages(n) ==
    IF n = 0 THEN <<>> ELSE Append(RefMessages(n - 1), system_message(n))

_make_system_messages_raises == \E r \in RefImages : system_message_raises(r)

_make_system_messages ==
    <<Msg("system", "none", 0, FALSE, "persona", 0)>> \o RefMessages(NumRef)

\* variant: the loop does not break at the first image without transcription
RECURSIVE ScanFrom_NoBreak(_, _)
ScanFrom_NoBreak(d, k) ==
    IF k > NumWork THEN <<>>
    ELSE IF has_transcription(d, k)
         THEN <<user_message(k), assistant_message(d, k)>>
                \o ScanFrom_NoBreak(d, k + 1)
         ELSE <<user_message(k)>> \o ScanFrom_NoBreak(d, k + 1)

\* the for loop of _transcribe_images from image k on: appends the user
\* message, then the assistant message or breaks
RECURSIVE ScanFrom(_, _)
ScanFrom(d, k) ==
    IF k > NumWork THEN <<>>
    ELSE IF has_transcription(d, k)
         THEN <<user_message(k), assistant_message(d, k)>> \o ScanFrom(d, k + 1)
         ELSE <<user_message(k)>>

UserMessages(d) == ScanFrom(d, 1)

\* variant: last_image is assigned on every iteration
LastImage_AlwaysAssigned(d) ==
    IF \E k \in WorkImages : ~has_transcription(d, k)
    THEN CHOOSE k \in WorkImages :
            /\ ~has_transcription(d, k)
            /\ \A j \in 1..(k - 1) : has_transcription(d, j)
    ELSE NumWork

\* last_image after the loop (0 stands for None)
LastImage(d) ==
    IF \E k \in WorkImages : ~has_transcription(d, k)
    THEN CHOOSE k \in WorkImages :
            /\ ~has_transcription(d, k)
            /\ \A j \in 1..(k - 1) : has_transcription(d, j)
    ELSE 0

\* Python's seq[s:] : a negative s counts from the end, and both are clamped
PySliceFrom(seq, s) ==
    LET n == Len(seq)
        start == IF s < 0 THEN Max(n + s, 0) ELSE Min(s, n)
    IN  SubSeq(seq, start + 1, n)

\* variant: the budget slice is taken of messages + user_messages
RequestMessages_SliceAll(d) ==
    LET all == _make_system_messages \o UserMessages(d)
    IN  PySliceFrom(all, Len(all) - MAX_PHOTOS_PER_CONVERSATION)

\* the messages argument of _request
RequestMessages(d) ==
    LET um == UserMessages(d)
    IN  _make_system_messages
          \o PySliceFrom(um, Len(um) - MAX_PHOTOS_PER_CONVERSATION)

RECURSIVE SumVals(_)
SumVals(seq) ==
    IF seq = <<>> THEN 0
    ELSE (IF Head(seq).role = "assistant" THEN Head(seq).val ELSE 0)
            + SumVals(Tail(seq))

\* a completion API whose answer is a deterministic function of the request
Resp(req) == 1 + ((SumVals(req) + req[Len(req)].idx) % NumTexts)

(* ---------------- transcribe.py: image records and their paths -------- *)

\* a file name is a stem (a sequence of pieces of text) and an extension
FileName(stem, ext) == [stem |-> stem, ext |-> ext]

\* the entries an images directory may hold, in the order sorted() gives
\* ("." sorts before "_", "a" before "b")
PCandidates ==
    << FileName(<<"a">>, ".jpeg"),
       FileName(<<"a">>, ".jpg"),
       FileName(<<"a", "_annotation">>, ".jpg"),
       FileName(<<"b">>, ".jpg"),
       FileName(<<"b">>, ".png") >>

\* image_path.endswith(".jpeg") or image_path.endswith(".jpg")
IsJpeg(name) == name.ext = ".jpeg" \/ name.ext = ".jpg"

\* os.path.splitext(image_path)[0]
splitext_root(name) == name.stem

\* PhotoTranscription._annotation_path: image_name + "_annotation.txt"
_annotation_path(name) == splitext_root(name) \o <<"_annotation", ".txt">>

\* PhotoTranscription._transcription_path: image_name + ".txt"
_transcription_path(name) == splitext_root(name) \o <<".txt">>

\* the companion paths of the entries a directory may hold
PPaths ==
    {_transcription_path(PCandidates[i]) : i \in DOMAIN PCandidates}
        \cup {_annotation_path(PCandidates[i]) : i \in DOMAIN PCandidates}

\* os.path.exists and the read of a companion file (None when missing)
rec_has_transcription(fs, name) == fs[_transcription_path(name)] # NoFile
rec_has_annotation(fs, name) == fs[_annotation_path(name)] # NoFile
rec_transcription(fs, name) ==
    IF rec_has_transcription(fs, name) THEN fs[_transcription_path(name)]
    ELSE NoFile
rec_annotation(fs, name) ==
    IF rec_has_annotation(fs, name) THEN fs[_annotation_path(name)] ELSE NoFile

\* save_transcription: open(self._transcription_path, "w"), f.write
rec_save_transcription(fs, name, text) ==
    [fs EXCEPT ![_transcription_path(name)] = text]

\* _load_images: the sorted entries with a .jpeg or .jpg extension
RECURSIVE LoadFrom(_, _)
LoadFrom(dir, i) ==
    IF i > Len(PCandidates) THEN <<>>
    ELSE (IF PCandidates[i] \in dir /\ IsJpeg(PCandidates[i])
          THEN <<PCandidates[i]>> ELSE <<>>) \o LoadFrom(dir, i + 1)

_load_images(dir) == LoadFrom(dir, 1)

PIdle ==
    /\ pDir = {}
    /\ pFs = [q \in PPaths |-> NoFile]
    /\ pImages = <<>>
    /\ pPc = "off"
    /\ pPrev = pFs
    /\ pSaved = 0

(* ---------------- uploader.py ---------------- *)

\* bound on the IDs the remote store hands out
MaxIds == 7

\* the parent of top-level folders and documents
DRIVE_PARENT_FOLDER_ID == 0

\* a path is a sequence of components [stem, ext]; "" is <<>>
Comp(stem, ext) == [stem |-> stem, ext |-> ext]

\* the files a scanned directory may hold, in the order os.walk yields them
UpCandidates ==
    << <<Comp("drive_map", ".json")>>,
       <<Comp("r", ".txt")>>,
       <<Comp("a", ""), Comp("x", ".TXT")>>,
       <<Comp("a", ""), Comp("b", ""), Comp("y", ".txt")>>,
       <<Comp("a", ""), Comp("c", ""), Comp("z", ".txt")>> >>

\* str.lower on an extension
Lower(ext) == IF ext = ".TXT" THEN ".txt" ELSE ext

\* os.path.dirname, os.path.basename and os.path.join on relative paths
dirname(p) == SubSeq(p, 1, Len(p) - 1)
basename(p) == p[Len(p)]
join(dir, filename) == Append(dir, filename)

\* filename.lower().endswith(".txt")
IsTxt(filename) == Lower(filename.ext) = ".txt"

\* the local_file_path values main passes on, in walk order
RECURSIVE Walk(_, _)
Walk(dir, i) ==
    IF i > Len(UpCandidates) THEN <<>>
    ELSE LET p == UpCandidates[i]
         IN  (IF p \in dir /\ IsTxt(basename(p))
              THEN <<join(dirname(p), basename(p))>> ELSE <<>>)
                \o Walk(dir, i + 1)

EmptyDict == [x \in {} |-> 0]

\* d[k] = v on a dict
Assign(d, k, v) == [x \in DOMAIN d \cup {k} |-> IF x = k THEN v ELSE d[x]]

\* the contents of drive_map.json: absent, a complete JSON document, or a
\* truncated one
MapFile(state, folders, files) ==
    [state |-> state, folders |-> folders, files |-> files]

NoMapping == MapFile("absent", EmptyDict, EmptyDict)

\* load_mapping; json.load raises on a truncated document
load_mapping_raises(f) == f.state = "corrupt"

load_mapping(f) ==
    IF f.state = "ok" THEN MapFile("ok", f.folders, f.files)
    ELSE MapFile("ok", EmptyDict, EmptyDict)

\* save_mapping
save_mapping(m) == MapFile("ok", m.folders, m.files)

\* create_folder_if_not_exists: `if local_folder_path in mapping["folders"]`
FolderAlreadyMapped(m, p) == p \in DOMAIN m.folders

\* variant: the document lookup is missing
DocAlreadyMapped_Never(m, p) == FALSE

\* create_doc_if_not_exists: `if local_file_path in mapping["files"]`
DocAlreadyMapped(m, p) == p \in DOMAIN m.files

\* create_folder_if_not_exists(p): the folder its next remote create call is
\* for (<<>>: none is needed); the recursion creates parents first
RECURSIVE FolderToCreate(_, _)
FolderToCreate(m, p) ==
    IF p = <<>> \/ FolderAlreadyMapped(m, p) THEN <<>>
    ELSE IF dirname(p) # <<>> /\ FolderToCreate(m, dirname(p)) # <<>>
         THEN FolderToCreate(m, dirname(p))
         ELSE p

\* the parent_id of the create call for folder or file p
ParentId(m, p) ==
    IF dirname(p) # <<>> THEN m.folders[dirname(p)] ELSE DRIVE_PARENT_FOLDER_ID

Created(p, id, parent) == [path |-> p, id |-> id, parent |-> parent]

UpRunning == {"start", "walking"}
UpEnded == {"done", "raised_json", "raised_remote", "interrupted"}

UpIdle ==
    /\ upDir = {}
    /\ upPc = "off"
    /\ upDisk = NoMapping
    /\ upMap = NoMapping
    /\ upStart = NoMapping
    /\ upQueue = <<>>
    /\ upNextId = 1
    /\ upFolderCreates = {}
    /\ upDocCreates = {}
    /\ upPrevComplete = FALSE

TrIdle ==
    /\ refAnn = [r \in RefImages |-> NoFile]
    /\ workAnn = {}
    /\ disk = [k \in WorkImages |-> NoFile]
    /\ disk0 = disk
    /\ diskAtStart = disk
    /\ pc = "off"
    /\ target = 0
    /\ request = <<>>
    /\ response = NoFile
    /\ received = [k \in WorkImages |-> NoFile]
    /\ apiCalls = 0
    /\ writes = 0
    /\ selections = 0
    /\ requested = <<>>

UpInit ==
    /\ TrIdle
    /\ PIdle
    /\ upDir \in SUBSET {UpCandidates[i] : i \in DOMAIN UpCandidates}
    /\ upPc = "start"
    /\ upDisk = NoMapping
    /\ upMap = NoMapping
    /\ upStart = NoMapping
    /\ upQueue = <<>>
    /\ upNextId = 1
    /\ upFolderCreates = {}
    /\ upDocCreates = {}
    /\ upPrevComplete = FALSE

\* main: load_mapping, then os.walk starts
UpLoad ==
    /\ upPc = "start"
    /\ ~load_mapping_raises(upDisk)
    /\ upMap' = load_mapping(upDisk)
    /\ upStart' = load_mapping(upDisk)
    /\ upQueue' = Walk(upDir, 1)
    /\ upPc' = "walking"
    /\ UNCHANGED <<upDir, upDisk, upNextId, upFolderCreates, upDocCreates,
                   upPrevComplete>>
    /\ UNCHANGED <<tvars, pvars>>

\* main: json.load raises on a truncated drive_map.json
UpLoadFails ==
    /\ upPc = "start"
    /\ load_mapping_raises(upDisk)
    /\ upPc' = "raised_json"
    /\ UNCHANGED <<upDir, upDisk, upMap, upStart, upQueue, upNextId,
                   upFolderCreates, upDocCreates, upPrevComplete>>
    /\ UNCHANGED <<tvars, pvars>>

\* create_doc_if_not_exists returns the recorded ID
UpSkipDoc ==
    /\ upPc = "walking"
    /\ upQueue # <<>>
    /\ DocAlreadyMapped(upMap, Head(upQueue))
    /\ upQueue' = Tail(upQueue)
    /\ UNCHANGED <<upDir, upPc, upDisk, upMap, upStart, upNextId,
                   upFolderCreates, upDocCreates, upPrevComplete>>
    /\ UNCHANGED <<tvars, pvars>>

\* create_folder_if_not_exists: one remote create, the mapping entry and
\* save_mapping
UpCreateFolder ==
    /\ upPc = "walking"
    /\ upQueue # <<>>
    /\ ~DocAlreadyMapped(upMap, Head(upQueue))
    /\ FolderToCreate(upMap, dirname(Head(upQueue))) # <<>>
    /\ upNextId <= MaxIds
    /\ LET f == FolderToCreate(upMap, dirname(Head(upQueue)))
           m == [upMap EXCEPT !.folders = Assign(@, f, upNextId)]
       IN  /\ upFolderCreates' =
                upFolderCreates \cup {Created(f, upNextId, ParentId(upMap, f))}
           /\ upMap' = m
           /\ upDisk' = save_mapping(m)
    /\ upNextId' = upNextId + 1
    /\ UNCHANGED <<upDir, upPc, upStart, upQueue, upDocCreates, upPrevComplete>>
    /\ UNCHANGED <<tvars, pvars>>

\* create_doc_if_not_exists: the remote create, the mapping entry and
\* save_mapping
UpCreateDoc ==
    /\ upPc = "walking"
    /\ upQueue # <<>>
    /\ ~DocAlreadyMapped(upMap, Head(upQueue))
    /\ FolderToCreate(upMap, dirname(Head(upQueue))) = <<>>
    /\ upNextId <= MaxIds
    /\ LET p == Head(upQueue)
           m == [upMap EXCEPT !.files = Assign(@, p, upNextId)]
       IN  /\ upDocCreates' =
                upDocCreates \cup {Created(p, upNextId, ParentId(upMap, p))}
           /\ upMap' = m
           /\ upDisk' = save_mapping(m)
    /\ upNextId' = upNextId + 1
    /\ upQueue' = Tail(upQueue)
    /\ UNCHANGED <<upDir, upPc, upStart, upFolderCreates, upPrevComplete>>
    /\ UNCHANGED <<tvars, pvars>>

\* a remote create raises; nothing catches it
UpRemoteFail ==
    /\ upPc = "walking"
    /\ upQueue # <<>>
    /\ ~DocAlreadyMapped(upMap, Head(upQueue))
    /\ upPc' = "raised_remote"
    /\ UNCHANGED <<upDir, upDisk, upMap, upStart, upQueue, upNextId,
                   upFolderCreates, upDocCreates, upPrevComplete>>
    /\ UNCHANGED <<tvars, pvars>>

\* the process is killed after a remote create returned and before
\* save_mapping completed: drive_map.json is untouched or left truncated
UpKilledAfterCreate ==
    /\ upPc = "walking"
    /\ upQueue # <<>>
    /\ ~DocAlreadyMapped(upMap, Head(upQueue))
    /\ upNextId <= MaxIds
    /\ LET p == Head(upQueue)
           f == FolderToCreate(upMap, dirname(p))
       IN  IF f # <<>>
           THEN /\ upFolderCreates' = upFolderCreates
                      \cup {Created(f, upNextId, ParentId(upMap, f))}
                /\ upDocCreates' = upDocCreates
           ELSE /\ upDocCreates' = upDocCreates
                      \cup {Created(p, upNextId, ParentId(upMap, p))}
                /\ upFolderCreates' = upFolderCreates
    /\ upNextId' = upNextId + 1
    /\ \/ upDisk' = upDisk
       \/ upDisk' = MapFile("corrupt", EmptyDict, EmptyDict)
    /\ upPc' = "interrupted"
    /\ UNCHANGED <<upDir, upMap, upStart, upQueue, upPrevComplete>>
    /\ UNCHANGED <<tvars, pvars>>

\* the process is killed between two steps
UpInterrupt ==
    /\ upPc \in UpRunning
    /\ upPc' = "interrupted"
    /\ UNCHANGED <<upDir, upDisk, upMap, upStart, upQueue, upNextId,
                   upFolderCreates, upDocCreates, upPrevComplete>>
    /\ UNCHANGED <<tvars, pvars>>

\* main: the walk is over, "Done. All .txt files processed."
UpFinish ==
    /\ upPc = "walking"
    /\ upQueue = <<>>
    /\ upPc' = "done"
    /\ UNCHANGED <<upDir, upDisk, upMap, upStart, upQueue, upNextId,
                   upFolderCreates, upDocCreates, upPrevComplete>>
    /\ UNCHANGED <<tvars, pvars>>

\* the uploader is run again over the unchanged directory
UpRestart ==
    /\ upPc \in UpEnded
    /\ upPc' = "start"
    /\ upPrevComplete' = (upPc = "done")
    /\ upMap' = NoMapping
    /\ upStart' = NoMapping
    /\ upQueue' = <<>>
    /\ upFolderCreates' = {}
    /\ upDocCreates' = {}
    /\ UNCHANGED <<upDir, upDisk, upNextId>>
    /\ UNCHANGED <<tvars, pvars>>

UpNext ==
    \/ UpLoad
    \/ UpLoadFails
    \/ UpSkipDoc
    \/ UpCreateFolder
    \/ UpCreateDoc
    \/ UpRemoteFail
    \/ UpKilledAfterCreate
    \/ UpInterrupt
    \/ UpFinish
    \/ UpRestart

UpSpec == UpInit /\ [][UpNext]_vars

(* ---------------- transcribe.py: the driver process ---------------- *)

Running == {"loop", "requesting", "responded", "writing"}
Raised == {"raised_exhausted", "raised_precondition", "raised_api"}
Ended == Raised \cup {"interrupted"}

Init ==
    /\ refAnn \in [RefImages -> {NoFile, EmptyText, 1}]
    /\ workAnn \in {{}, {1}, WorkImages}
    /\ disk \in [WorkImages -> {NoFile, 1}]
    /\ disk0 = disk
    /\ diskAtStart = disk
    /\ pc = "loop"
    /\ target = 0
    /\ request = <<>>
    /\ response = NoFile
    /\ received = [k \in WorkImages |-> NoFile]
    /\ apiCalls = 0
    /\ writes = 0
    /\ selections = 0
    /\ requested = <<>>
    /\ UpIdle
    /\ PIdle

\* _transcribe_images: _make_system_messages raises ValueError
SelectPreconditionFails ==
    /\ pc = "loop"
    /\ _make_system_messages_raises
    /\ pc' = "raised_precondition"
    /\ selections' = selections + 1
    /\ UNCHANGED <<refAnn, workAnn, disk, disk0, diskAtStart, target, request,
                   response, received, apiCalls, writes, requested>>
    /\ UNCHANGED <<uvars, pvars>>

\* _transcribe_images: `if not last_image: raise ValueError(...)`; main does
\* not catch it
SelectExhausted ==
    /\ pc = "loop"
    /\ ~_make_system_messages_raises
    /\ LastImage(disk) = 0
    /\ pc' = "raised_exhausted"
    /\ target' = 0
    /\ selections' = selections + 1
    /\ UNCHANGED <<refAnn, workAnn, disk, disk0, diskAtStart, request,
                   response, received, apiCalls, writes, requested>>
    /\ UNCHANGED <<uvars, pvars>>

\* _transcribe_images up to the blocking _request call
SelectAndRequest ==
    /\ pc = "loop"
    /\ ~_make_system_messages_raises
    /\ LastImage(disk) # 0
    /\ target' = LastImage(disk)
    /\ request' = RequestMessages(disk)
    /\ apiCalls' = apiCalls + 1
    /\ requested' = Append(requested, LastImage(disk))
    /\ selections' = selections + 1
    /\ pc' = "requesting"
    /\ UNCHANGED <<refAnn, workAnn, disk, disk0, diskAtStart, response,
                   received, writes>>
    /\ UNCHANGED <<uvars, pvars>>

\* the completion API answers; main reads response.choices[0].message.content
ApiRespond ==
    /\ pc = "requesting"
    /\ response' = Resp(request)
    /\ received' = [received EXCEPT ![target] = Resp(request)]
    /\ pc' = "responded"
    /\ UNCHANGED <<refAnn, workAnn, disk, disk0, diskAtStart, target, request,
                   apiCalls, writes, selections, requested>>
    /\ UNCHANGED <<uvars, pvars>>

\* a transport or API error propagates out of main
ApiFail ==
    /\ pc = "requesting"
    /\ pc' = "raised_api"
    /\ UNCHANGED <<refAnn, workAnn, disk, disk0, diskAtStart, target, request,
                   response, received, apiCalls, writes, selections, requested>>
    /\ UNCHANGED <<uvars, pvars>>

\* save_transcription: open(path, "w") creates or truncates the file
SaveOpen ==
    /\ pc = "responded"
    /\ disk' = [disk EXCEPT ![target] = EmptyText]
    /\ writes' = writes + 1
    /\ pc' = "writing"
    /\ UNCHANGED <<refAnn, workAnn, disk0, diskAtStart, target, request,
                   response, received, apiCalls, selections, requested>>
    /\ UNCHANGED <<uvars, pvars>>

\* save_transcription: f.write and the close at the end of the with block;
\* main loops
SaveWrite ==
    /\ pc = "writing"
    /\ disk' = [disk EXCEPT ![target] = response]
    /\ pc' = "loop"
    /\ UNCHANGED <<refAnn, workAnn, disk0, diskAtStart, target, request,
                   response, received, apiCalls, writes, selections, requested>>
    /\ UNCHANGED <<uvars, pvars>>

\* the process is terminated from outside (the only way to stop a run)
Interrupt ==
    /\ pc \in Running
    /\ pc' = "interrupted"
    /\ UNCHANGED <<refAnn, workAnn, disk, disk0, diskAtStart, target, request,
                   response, received, apiCalls, writes, selections, requested>>
    /\ UNCHANGED <<uvars, pvars>>

\* the driver is started again on the same directories
Restart ==
    /\ pc \in Ended
    /\ pc' = "loop"
    /\ diskAtStart' = disk
    /\ target' = 0
    /\ request' = <<>>
    /\ response' = NoFile
    /\ apiCalls' = 0
    /\ writes' = 0
    /\ selections' = 0
    /\ requested' = <<>>
    /\ UNCHANGED <<refAnn, workAnn, disk, disk0, received>>
    /\ UNCHANGED <<uvars, pvars>>

Next ==
    \/ SelectPreconditionFails
    \/ SelectExhausted
    \/ SelectAndRequest
    \/ ApiRespond
    \/ ApiFail
    \/ SaveOpen
    \/ SaveWrite
    \/ Interrupt
    \/ Restart

Spec == Init /\ [][Next]_vars

TypeOK ==
    /\ pc \in Running \cup Ended
    /\ target \in 0..NumWork
    /\ disk \in [WorkImages -> {NoFile, EmptyText} \cup Texts]

(* ---------------- transcribe.py: loading records and saving ---------- *)

PInit ==
    /\ TrIdle
    /\ UpIdle
    /\ pDir \in SUBSET {PCandidates[i] : i \in DOMAIN PCandidates}
    /\ pFs \in [PPaths -> {NoFile, 1}]
    /\ pImages = <<>>
    /\ pPc = "start"
    /\ pPrev = pFs
    /\ pSaved = 0

\* main: _load_images(user_images_dir)
PLoad ==
    /\ pPc = "start"
    /\ pImages' = _load_images(pDir)
    /\ pPc' = "loaded"
    /\ UNCHANGED <<pDir, pFs, pPrev, pSaved>>
    /\ UNCHANGED <<tvars, uvars>>

\* main: image.save_transcription(transcription_text) on one of the records
PSave ==
    /\ pPc = "loaded"
    /\ \E i \in DOMAIN pImages, text \in Texts :
          /\ pPrev' = pFs
          /\ pFs' = rec_save_transcription(pFs, pImages[i], text)
          /\ pSaved' = i
    /\ UNCHANGED <<pDir, pImages, pPc>>
    /\ UNCHANGED <<tvars, uvars>>

PNext ==
    \/ PLoad
    \/ PSave

PathSpec == PInit /\ [][PNext]_vars

(* ---------------- properties of the transcription driver ---------------- *)

AllDone(d) == \A k \in WorkImages : has_transcription(d, k)

\* the result of a run that is never interrupted and whose API never fails
RECURSIVE UninterruptedRun(_)
UninterruptedRun(d) ==
    IF LastImage(d) = 0 THEN d
    ELSE UninterruptedRun([d EXCEPT ![LastImage(d)] = Resp(RequestMessages(d))])

\* images of the set S in discovery order, from image k on
RECURSIVE InOrder(_, _)
InOrder(S, k) ==
    IF k > NumWork THEN <<>>
    ELSE (IF k \in S THEN <<k>> ELSE <<>>) \o InOrder(S, k + 1)

\* the work turns of a request: everything after the system preamble
WorkTurns(req) == SubSeq(req, NumRef + 2, Len(req))

\* C1: when every work image has a transcription (and the reference set is
\* well formed) the run never ends in an error end state.
C1_GracefulCompletion ==
    (AllDone(disk) /\ ~_make_system_messages_raises) => pc \notin Raised

\* C2: a run that was restarted after an interruption and has worked through
\* the work set has requested exactly the images that were not transcribed
\* when it started, once each and in discovery order, and leaves the files an
\* uninterrupted run leaves.
C2_Resumable ==
    pc = "raised_exhausted" =>
        /\ requested = InOrder({k \in WorkImages : diskAtStart[k] \notin Texts}, 1)
        /\ disk = UninterruptedRun(disk0)

\* C3: with at least MAX_PHOTOS_PER_CONVERSATION transcribed work images
\* before the target, the request holds exactly MAX_PHOTOS_PER_CONVERSATION
\* prior image-bearing work turns.
C3_ContextWindow ==
    (pc = "requesting" /\ target - 1 >= MAX_PHOTOS_PER_CONVERSATION) =>
        Cardinality({i \in DOMAIN request :
                        /\ request[i].src = "work"
                        /\ request[i].hasImage
                        /\ request[i].idx # target})
            = MAX_PHOTOS_PER_CONVERSATION

\* C4: every request for the k-th work image, k >= 2, holds the user turn and
\* the assistant turn (with the persisted text) of image k-1, followed by the
\* user turn of image k.
C4_PreviousPairInContext ==
    (pc = "requesting" /\ target >= 2) =>
        \E i \in DOMAIN request :
            /\ i + 2 = Len(request)
            /\ request[i] = user_message(target - 1)
            /\ request[i + 1] = assistant_message(disk, target - 1)
            /\ request[i + 1].val = disk[target - 1]
            /\ request[i + 2] = user_message(target)

\* C5 as stated: a run started on a fully transcribed work set makes no API
\* call and no write, and what it reports, on its first selection, is
\* exhausted.
C5_IdempotentAsStated ==
    AllDone(diskAtStart) =>
        /\ apiCalls = 0
        /\ writes = 0
        /\ pc \in Raised => (pc = "raised_exhausted" /\ selections = 1)

\* C5 (amended): a run started on a fully transcribed work set makes no API
\* call and no write; its first selection reports exhausted when every
\* reference image has a non-empty annotation and fails with the reference
\* precondition error otherwise.
C5_Idempotent ==
    AllDone(diskAtStart) =>
        /\ apiCalls = 0
        /\ writes = 0
        /\ disk = diskAtStart
        /\ selections <= 1
        /\ pc \in Raised =>
              /\ selections = 1
              /\ pc = IF _make_system_messages_raises
                      THEN "raised_precondition" ELSE "raised_exhausted"

\* the second of two runs over a work set that started empty has ended
C5_Witness ==
    /\ pc = "raised_exhausted"
    /\ AllDone(diskAtStart)
    /\ \A k \in WorkImages : disk0[k] = NoFile
    /\ apiCalls = 0
    /\ selections = 1

\* C6: the final turn of every request is the user turn of the target image,
\* and the target has no transcription when the request is sent.
C6_FinalTurnIsTarget ==
    pc = "requesting" =>
        /\ target \in WorkImages
        /\ request[Len(request)].role = "user"
        /\ request[Len(request)].src = "work"
        /\ request[Len(request)].hasImage
        /\ request[Len(request)].idx = target
        /\ disk[target] = NoFile

\* a request whose context was truncated, with transcribed images before and
\* after a gap
C6_Witness ==
    /\ pc = "requesting"
    /\ target >= 3
    /\ target < NumWork
    /\ Len(UserMessages(disk)) > MAX_PHOTOS_PER_CONVERSATION
    /\ request[Len(request)].idx = target

\* C7: every request is the complete system preamble (the system turn, then
\* one turn per reference image in discovery order) followed by a suffix of
\* the accumulated work turns of length at most MAX_PHOTOS_PER_CONVERSATION.
C7_PreamblePlusSuffix ==
    pc = "requesting" =>
        LET um == UserMessages(disk)
            rest == WorkTurns(request)
        IN  /\ Len(request) >= NumRef + 1
            /\ request[1].role = "system"
            /\ \A r \in RefImages :
                  /\ request[1 + r].role = "user"
                  /\ request[1 + r].src = "ref"
                  /\ request[1 + r].idx = r
                  /\ request[1 + r].hasImage
                  /\ request[1 + r].val = refAnn[r]
            /\ Len(rest) <= MAX_PHOTOS_PER_CONVERSATION
            /\ Len(rest) <= Len(um)
            /\ rest = SubSeq(um, Len(um) - Len(rest) + 1, Len(um))

\* a request from which the oldest work turns were removed
C7_Witness ==
    /\ pc = "requesting"
    /\ Len(UserMessages(disk)) > MAX_PHOTOS_PER_CONVERSATION
    /\ Len(WorkTurns(request)) = MAX_PHOTOS_PER_CONVERSATION
    /\ Len(request) = NumRef + 1 + MAX_PHOTOS_PER_CONVERSATION

\* C8: outside of a write in progress, a transcription file this system
\* created exists only if a response for the image was fully received, and
\* it holds that response text in full.
C8_NoPartialState ==
    pc # "writing" =>
        \A k \in WorkImages :
            (disk[k] # NoFile /\ disk0[k] = NoFile) =>
                (received[k] # NoFile /\ disk[k] = received[k])

\* C9: when a reference image lacks its annotation file the run fails with
\* the precondition error, makes no API call and writes no transcription.
C9_ReferenceCompleteness ==
    (\E r \in RefImages : refAnn[r] = NoFile) =>
        /\ apiCalls = 0
        /\ writes = 0
        /\ disk = disk0
        /\ pc \in {"loop", "raised_precondition", "interrupted"}

\* the precondition error was raised while work remained
C9_Witness ==
    /\ pc = "raised_precondition"
    /\ \E r \in RefImages : refAnn[r] = NoFile
    /\ \E k \in WorkImages : disk[k] = NoFile
    /\ selections = 1

(* ---------------- properties of the uploader ---------------- *)

\* C10: a run creates no remote folder and no remote document for a path the
\* mapping it started from already holds, keeps every ID that mapping records
\* (in memory and in drive_map.json), and creates nothing at all when the
\* previous run over the same directory was complete.
C10_UploaderIdempotent ==
    upPc \in {"walking", "done", "raised_remote", "interrupted"} =>
        /\ \A c \in upFolderCreates : c.path \notin DOMAIN upStart.folders
        /\ \A c \in upDocCreates : c.path \notin DOMAIN upStart.files
        /\ \A p \in DOMAIN upStart.folders :
              /\ p \in DOMAIN upMap.folders
              /\ upMap.folders[p] = upStart.folders[p]
              /\ upDisk.state = "ok" =>
                    (p \in DOMAIN upDisk.folders
                        /\ upDisk.folders[p] = upStart.folders[p])
        /\ \A p \in DOMAIN upStart.files :
              /\ p \in DOMAIN upMap.files
              /\ upMap.files[p] = upStart.files[p]
              /\ upDisk.state = "ok" =>
                    (p \in DOMAIN upDisk.files
                        /\ upDisk.files[p] = upStart.files[p])
        /\ upPrevComplete => (upFolderCreates = {} /\ upDocCreates = {})

\* a second complete run over a directory with nested folders has ended
C10_Witness ==
    /\ upPc = "done"
    /\ upPrevComplete
    /\ Cardinality(DOMAIN upStart.files) >= 3
    /\ Cardinality(DOMAIN upStart.folders) >= 2
    /\ upFolderCreates = {}
    /\ upDocCreates = {}

(* ---------------- properties of the image records ---------------- *)

\* C11: after save_transcription on one record, has_transcription,
\* transcription and annotation of every other discovered record are what
\* they were; distinct records never share a transcription path, and no
\* record's transcription path is another record's annotation path.
C11_SaveChangesOneRecord ==
    (pPc = "loaded" /\ pSaved # 0) =>
        /\ \A j \in DOMAIN pImages \ {pSaved} :
              /\ rec_has_transcription(pFs, pImages[j])
                    = rec_has_transcription(pPrev, pImages[j])
              /\ rec_transcription(pFs, pImages[j])
                    = rec_transcription(pPrev, pImages[j])
              /\ rec_annotation(pFs, pImages[j])
                    = rec_annotation(pPrev, pImages[j])
        /\ \A i, j \in DOMAIN pImages :
              i # j =>
                /\ _transcription_path(pImages[i]) # _transcription_path(pImages[j])
                /\ _transcription_path(pImages[i]) # _annotation_path(pImages[j])

====
